---- MODULE Spec2Model ----
(***************************************************************************)
(* Checkout simulation of programm#1.py: discount strategies, the three    *)
(* mock payment methods with their ledgers, Order, the file logger and the *)
(* interactive driver main().                                              *)
(*                                                                         *)
(* Money is held in cents (500.0 -> 50000), so that the percentage         *)
(* discounts of the program are exact on the prices used here.  A Python   *)
(* str is a sequence of one-character strings; a dict is a function from   *)
(* its keys.                                                               *)
(***************************************************************************)
EXTENDS Integers, Sequences, FiniteSets, TLC

\* ------------------------------------------------------------------ bounds
MaxItems == 2
MaxCharges == 2

\* ------------------------------------------------------- python primitives
\* The value None (no str has a multi-character element).
None == <<"None">>

\* The empty dict {}.
EmptyDict == [k \in {} |-> None]

\* dict.get(key): None when the key is missing.
Get(d, k) == IF k \in DOMAIN d THEN d[k] ELSE None

\* `not s` for a str-or-None value.
Falsy(s) == s = None \/ s = <<>>

Digit == {"0", "1", "2", "3", "4", "5", "6", "7", "8", "9"}

\* re.match(r"^\d{n}$", s): n digits, `$` also matching before a final newline.
MatchDigits(s, n) ==
    /\ Len(s) = n \/ (Len(s) = n + 1 /\ s[n + 1] = "\n")
    /\ \A i \in 1..n : s[i] \in Digit

\* re.match(r"^\d{2}/\d{2}$", s)
MatchExpiry(s) ==
    /\ Len(s) = 5 \/ (Len(s) = 6 /\ s[6] = "\n")
    /\ s[1] \in Digit /\ s[2] \in Digit /\ s[3] = "/"
    /\ s[4] \in Digit /\ s[5] \in Digit

\* re.match(r"[^@]+@[^@]+\.[^@]+", s): anchored at the start only.
MatchEmail(s) ==
    \E i \in 2..Len(s) : \E j \in (i + 2)..(Len(s) - 1) :
        /\ s[i] = "@"
        /\ \A k \in 1..(i - 1) : s[k] # "@"
        /\ \A k \in (i + 1)..(j - 1) : s[k] # "@"
        /\ s[j] = "."
        /\ s[j + 1] # "@"

\* ------------------------------------------------------------ input values
Card1 == <<"1","2","3","4","5","6","7","8","9","1","2","3","4","5","6","7">>
Card9 == <<"9","9","9","9","9","9","9","9","9","9","9","9","9","9","9","9">>
Rand == <<"R","a","n","d","@","g","m","a","i","l",".","c","o","m">>
Sama == <<"S","a","m","a","@","g","m","a","i","l",".","c","o","m">>
Bob == <<"b","o","b","@","x",".","o","r","g">>
Wallet == <<"1","B","o","a","t","S","L","R","H","t","K","N","n","g","k","d","X",
            "E","e","o","b","R","7","6","b","5","3","L","E","T","t","p","y","T">>
Wallet2 == <<"1","B","o","a","t","S","L","R","H","t","K","N","n","g","k","d","X",
             "E","e","o","b","R","7","6","b","5","3","L","E","T","t","p","y","X">>
Expiry == <<"1","1","/","2","5">>
Cvv == <<"1","2","3">>

CardDetails ==
    { [card_number |-> Card1, expiry_date |-> Expiry, cvv |-> Cvv],
      [card_number |-> Card9, expiry_date |-> Expiry, cvv |-> Cvv],
      [card_number |-> Card1, expiry_date |-> Expiry, cvv |-> <<"1","2">>],
      [card_number |-> Card1, expiry_date |-> <<>>, cvv |-> Cvv] }

PayPalDetails ==
    { [email |-> Rand], [email |-> Bob], [email |-> <<"R","a","n","d">>] }

CryptoDetails ==
    { [wallet_address |-> Wallet], [wallet_address |-> Wallet2],
      [wallet_address |-> <<>>] }

\* The details main() builds for an instance of class m, and the empty dict.
DetailsOf(m) ==
    CASE m = "CreditCardPayment" -> CardDetails \cup {EmptyDict}
      [] m = "PayPalPayment" -> PayPalDetails \cup {EmptyDict}
      [] m = "CryptocurrencyPayment" -> CryptoDetails \cup {EmptyDict}

ItemNames == {<<"p","e","n">>}
\* (quantity, price) pairs offered to add_item: a plain line (50.00), a negative
\* quantity at a negative price (2000.00, beyond every balance), a negative
\* quantity (-50.00).
Lines == {<<2, 2500>>, <<-2, -100000>>, <<-2, 2500>>}
Amounts == {-2500, 0, 2000, 60000}

\* ---------------------------------------------------------------- discounts
PercentageDiscount(percentage) ==
    [kind |-> "PercentageDiscount", percentage |-> percentage]

FixedAmountDiscount(discount_amount) ==
    [kind |-> "FixedAmountDiscount", discount_amount |-> discount_amount]

NoDiscount == [kind |-> "None"]

calculate_discount(strategy, amount) ==
    IF strategy.kind = "PercentageDiscount"
    THEN (amount * strategy.percentage) \div 100
    ELSE strategy.discount_amount

\* ----------------------------------------------------------- payment methods
Methods == {"CreditCardPayment", "PayPalPayment", "CryptocurrencyPayment"}

approved_cards == (Card1 :> 50000)
approved_emails == (Rand :> 50000) @@ (Sama :> 100000)
mock_wallets == (Wallet :> 100000)

\* The ledger a constructor builds.
NewLedger(m) ==
    CASE m = "CreditCardPayment" -> approved_cards
      [] m = "PayPalPayment" -> approved_emails
      [] m = "CryptocurrencyPayment" -> mock_wallets

\* The details key that names the account of a method.
IdKey(m) ==
    CASE m = "CreditCardPayment" -> "card_number"
      [] m = "PayPalPayment" -> "email"
      [] m = "CryptocurrencyPayment" -> "wallet_address"

CreditCardPayment_validate(L, d) ==
    LET card_number == Get(d, "card_number")
        expiry_date == Get(d, "expiry_date")
        cvv == Get(d, "cvv")
    IN  IF Falsy(card_number) \/ ~MatchDigits(card_number, 16) THEN FALSE
        ELSE IF Falsy(expiry_date) \/ ~MatchExpiry(expiry_date) THEN FALSE
        ELSE IF Falsy(cvv) \/ ~MatchDigits(cvv, 3) THEN FALSE
        ELSE IF card_number \notin DOMAIN L THEN FALSE
        ELSE TRUE

PayPalPayment_validate(L, d) ==
    LET email == Get(d, "email")
    IN  IF Falsy(email) \/ ~MatchEmail(email) THEN FALSE
        ELSE IF email \notin DOMAIN L THEN FALSE
        ELSE TRUE

CryptocurrencyPayment_validate(L, d) ==
    LET wallet_address == Get(d, "wallet_address")
    IN  IF Falsy(wallet_address) \/ Len(wallet_address) # 34 THEN FALSE
        ELSE IF wallet_address \notin DOMAIN L THEN FALSE
        ELSE TRUE

validate(m, L, d) ==
    CASE m = "CreditCardPayment" -> CreditCardPayment_validate(L, d)
      [] m = "PayPalPayment" -> PayPalPayment_validate(L, d)
      [] m = "CryptocurrencyPayment" -> CryptocurrencyPayment_validate(L, d)

CreditCardPayment_check_balance_nocompare(L, d, amount) ==
    Get(d, "card_number") \in DOMAIN L

CreditCardPayment_check_balance(L, d, amount) ==
    LET card_number == Get(d, "card_number")
    IN  IF card_number \in DOMAIN L THEN L[card_number] >= amount ELSE FALSE

\* dict.get(key, 0)
GetOr0(L, k) == IF k \in DOMAIN L THEN L[k] ELSE 0

PayPalPayment_check_balance(L, d, amount) ==
    GetOr0(L, Get(d, "email")) >= amount

CryptocurrencyPayment_check_balance(L, d, amount) ==
    GetOr0(L, Get(d, "wallet_address")) >= amount

check_balance(m, L, d, amount) ==
    CASE m = "CreditCardPayment" -> CreditCardPayment_check_balance(L, d, amount)
      [] m = "PayPalPayment" -> PayPalPayment_check_balance(L, d, amount)
      [] m = "CryptocurrencyPayment" ->
            CryptocurrencyPayment_check_balance(L, d, amount)

\* Outcome of a call: what it returned or raised, and the ledger it leaves.
Returned(v, L) == [raised |-> "", ret |-> v, ledger |-> L]
Raised(e, L) == [raised |-> e, ret |-> FALSE, ledger |-> L]

\* `L[k] -= amount`: the read of a missing key raises KeyError before any write.
Decrement(L, k, amount) ==
    IF k \in DOMAIN L
    THEN Returned(TRUE, [L EXCEPT ![k] = @ - amount])
    ELSE Raised("KeyError", L)

CreditCardPayment_process_payment(L, amount, d) ==
    IF ~CreditCardPayment_check_balance(L, d, amount)
    THEN Returned(FALSE, L)
    ELSE Decrement(L, Get(d, "card_number"), amount)

PayPalPayment_process_payment(L, amount, d) ==
    IF ~PayPalPayment_check_balance(L, d, amount)
    THEN Returned(FALSE, L)
    ELSE Decrement(L, Get(d, "email"), amount)

CryptocurrencyPayment_process_payment_charge_first(L, amount, d) ==
    LET k == Get(d, "wallet_address")
    IN  IF k \notin DOMAIN L THEN Returned(FALSE, L)
        ELSE IF L[k] >= amount THEN Returned(TRUE, [L EXCEPT ![k] = @ - amount])
        ELSE Returned(FALSE, [L EXCEPT ![k] = @ - amount])

CryptocurrencyPayment_process_payment(L, amount, d) ==
    IF ~CryptocurrencyPayment_check_balance(L, d, amount)
    THEN Returned(FALSE, L)
    ELSE Decrement(L, Get(d, "wallet_address"), amount)

process_payment(m, L, amount, d) ==
    CASE m = "CreditCardPayment" -> CreditCardPayment_process_payment(L, amount, d)
      [] m = "PayPalPayment" -> PayPalPayment_process_payment(L, amount, d)
      [] m = "CryptocurrencyPayment" ->
            CryptocurrencyPayment_process_payment(L, amount, d)

get_discount(m) ==
    CASE m = "CreditCardPayment" -> FixedAmountDiscount(3000)
      [] m = "PayPalPayment" -> PercentageDiscount(10)
      [] m = "CryptocurrencyPayment" -> PercentageDiscount(20)

\* --------------------------------------------------------------------- state
VARIABLES
    items, quantities, prices,      \* Order: the three parallel lists
    status,                         \* Order.status
    payment_method,                 \* Order.payment_method ("None" or an instance)
    discount_strategy,              \* Order.discount_strategy
    ledger,                         \* instance -> its dict of balances
    charges,                        \* successful process_payment calls so far
    op, ret, calls, passed, details, \* the last call: name, outcome, callees,
                                    \*   amount passed to process_payment, details
    before,                         \* Order.status on entry to the last call
    pc, method_choice, log, output  \* main(): position, menu input, log file, prints

order_vars == <<items, quantities, prices, status, payment_method, discount_strategy>>
hist_vars == <<op, ret, calls, passed, details, before>>
main_vars == <<pc, method_choice, log, output>>
vars == <<items, quantities, prices, status, payment_method, discount_strategy,
          ledger, charges, op, ret, calls, passed, details, before,
          pc, method_choice, log, output>>

\* main(): the value of method_choice before the menu input is read.
Unread == "<not read>"

RetBool(b) == [type |-> "bool", val |-> b]
RetNum(n) == [type |-> "num", val |-> n]
RetNone == [type |-> "none", val |-> None]
RetRaise(e) == [type |-> "raise", val |-> e]

\* The history left by a call that reaches no payment method.
Plain(name, r) ==
    /\ op' = name
    /\ ret' = r
    /\ calls' = <<>>
    /\ passed' = <<>>
    /\ details' = EmptyDict
    /\ before' = status

\* --------------------------------------------------------------------- Order
Order_init ==
    /\ items = <<>>
    /\ quantities = <<>>
    /\ prices = <<>>
    /\ status = "open"
    /\ payment_method = "None"
    /\ discount_strategy = NoDiscount

Min(a, b) == IF a < b THEN a ELSE b

RECURSIVE SumZip(_, _, _)
SumZip(qs, ps, n) ==
    IF n = 0 THEN 0 ELSE SumZip(qs, ps, n - 1) + qs[n] * ps[n]

total_price == SumZip(quantities, prices, Min(Len(quantities), Len(prices)))

apply_discounts ==
    IF discount_strategy # NoDiscount
    THEN calculate_discount(discount_strategy, total_price)
    ELSE 0

final_amount_noclamp == total_price - apply_discounts

\* pay, lines 224-227
final_amount ==
    LET discount == apply_discounts
        fa == total_price - discount
    IN  IF fa < 0 THEN 0 ELSE fa

add_item(name, quantity, price) ==
    /\ items' = Append(items, name)
    /\ quantities' = Append(quantities, quantity)
    /\ prices' = Append(prices, price)
    /\ UNCHANGED <<status, payment_method, discount_strategy>>

set_payment_method(m) ==
    /\ payment_method' = m
    /\ UNCHANGED <<items, quantities, prices, status, discount_strategy>>

set_discount_strategy(s) ==
    /\ discount_strategy' = s
    /\ UNCHANGED <<items, quantities, prices, status, payment_method>>

\* What pay(details) does: outcome, status, ledger, callees, amount passed.
PayOutcome(r, st, L, cs, amt) ==
    [ret |-> r, status |-> st, ledger |-> L, calls |-> cs, passed |-> amt]

pay_status_guard(d) ==
    IF payment_method = "None" \/ status = "paid"
    THEN PayOutcome(RetBool(status # "paid"), status, ledger, <<>>, <<>>)
    ELSE IF validate(payment_method, ledger[payment_method], d)
    THEN LET r == process_payment(payment_method, ledger[payment_method],
                                  final_amount, d)
         IN  PayOutcome(RetBool(r.ret), IF r.ret THEN "paid" ELSE status,
                        [ledger EXCEPT ![payment_method] = r.ledger],
                        <<"validate", "process_payment">>, <<final_amount>>)
    ELSE PayOutcome(RetBool(FALSE), status, ledger, <<"validate">>, <<>>)

pay_cash_paid(d) ==
    IF payment_method = "None"
    THEN PayOutcome(RetBool(TRUE), "paid", ledger, <<>>, <<>>)
    ELSE IF validate(payment_method, ledger[payment_method], d)
    THEN LET r == process_payment(payment_method, ledger[payment_method],
                                  final_amount, d)
         IN  PayOutcome(RetBool(r.ret), IF r.ret THEN "paid" ELSE status,
                        [ledger EXCEPT ![payment_method] = r.ledger],
                        <<"validate", "process_payment">>, <<final_amount>>)
    ELSE PayOutcome(RetBool(FALSE), status, ledger, <<"validate">>, <<>>)

pay_paid_after_validate(d) ==
    IF payment_method = "None"
    THEN PayOutcome(RetBool(TRUE), status, ledger, <<>>, <<>>)
    ELSE IF validate(payment_method, ledger[payment_method], d)
    THEN LET r == process_payment(payment_method, ledger[payment_method],
                                  final_amount, d)
         IN  PayOutcome(RetBool(r.ret), "paid",
                        [ledger EXCEPT ![payment_method] = r.ledger],
                        <<"validate", "process_payment">>, <<final_amount>>)
    ELSE PayOutcome(RetBool(FALSE), status, ledger, <<"validate">>, <<>>)

pay(d) ==
    IF payment_method = "None"
    THEN PayOutcome(RetBool(TRUE), status, ledger, <<>>, <<>>)
    ELSE IF validate(payment_method, ledger[payment_method], d)
    THEN LET r == process_payment(payment_method, ledger[payment_method],
                                  final_amount, d)
             L == [ledger EXCEPT ![payment_method] = r.ledger]
             cs == <<"validate", "process_payment">>
         IN  IF r.raised # ""
             THEN PayOutcome(RetRaise(r.raised), status, L, cs, <<final_amount>>)
             ELSE IF r.ret
             THEN PayOutcome(RetBool(TRUE), "paid", L, cs, <<final_amount>>)
             ELSE PayOutcome(RetBool(FALSE), status, L, cs, <<final_amount>>)
    ELSE PayOutcome(RetBool(FALSE), status, ledger, <<"validate">>, <<>>)

\* A call of order.pay(d), with the history it leaves.
CallPay(d) ==
    LET o == pay(d)
        charged == o.ret = RetBool(TRUE) /\ o.passed # <<>>
    IN  /\ charged => charges < MaxCharges
        /\ status' = o.status
        /\ ledger' = o.ledger
        /\ charges' = IF charged THEN charges + 1 ELSE charges
        /\ op' = "pay"
        /\ ret' = o.ret
        /\ calls' = o.calls
        /\ passed' = o.passed
        /\ details' = d
        /\ before' = status
        /\ UNCHANGED <<items, quantities, prices, payment_method, discount_strategy>>

\* ------------------------------------------------- calls made on the objects
\* Order(): a fresh order; the payment-method instances live on.
NewOrder ==
    /\ pc = "api"
    /\ items' = <<>>
    /\ quantities' = <<>>
    /\ prices' = <<>>
    /\ status' = "open"
    /\ payment_method' = "None"
    /\ discount_strategy' = NoDiscount
    /\ op' = "Order" /\ ret' = RetNone /\ calls' = <<>> /\ passed' = <<>>
    /\ details' = EmptyDict /\ before' = "open"
    /\ UNCHANGED <<ledger, charges>>
    /\ UNCHANGED main_vars

AddItem ==
    /\ pc = "api"
    /\ Len(items) < MaxItems
    /\ \E name \in ItemNames, line \in Lines : add_item(name, line[1], line[2])
    /\ Plain("add_item", RetNone)
    /\ UNCHANGED <<ledger, charges>>
    /\ UNCHANGED main_vars

SetPaymentMethod ==
    /\ pc = "api"
    /\ \E m \in DOMAIN ledger : set_payment_method(m)
    /\ Plain("set_payment_method", RetNone)
    /\ UNCHANGED <<ledger, charges>>
    /\ UNCHANGED main_vars

SetDiscountStrategy ==
    /\ pc = "api"
    /\ \E m \in DOMAIN ledger : set_discount_strategy(get_discount(m))
    /\ Plain("set_discount_strategy", RetNone)
    /\ UNCHANGED <<ledger, charges>>
    /\ UNCHANGED main_vars

TotalPrice ==
    /\ pc = "api"
    /\ Plain("total_price", RetNum(total_price))
    /\ UNCHANGED order_vars
    /\ UNCHANGED <<ledger, charges>>
    /\ UNCHANGED main_vars

ApplyDiscounts ==
    /\ pc = "api"
    /\ Plain("apply_discounts", RetNum(apply_discounts))
    /\ UNCHANGED order_vars
    /\ UNCHANGED <<ledger, charges>>
    /\ UNCHANGED main_vars

Pay ==
    /\ pc = "api"
    /\ \E m \in DOMAIN ledger : \E d \in DetailsOf(m) : CallPay(d)
    /\ UNCHANGED main_vars

Init ==
    /\ Order_init
    /\ \E m \in Methods : ledger = (m :> NewLedger(m))
    /\ charges = 0
    /\ op = "Order" /\ ret = RetNone /\ calls = <<>> /\ passed = <<>>
    /\ details = EmptyDict /\ before = "open"
    /\ pc = "api" /\ method_choice = Unread /\ log = <<>> /\ output = <<>>

\* One order and the payment method created with it.
Next ==
    \/ AddItem
    \/ SetPaymentMethod
    \/ SetDiscountStrategy
    \/ TotalPrice
    \/ ApplyDiscounts
    \/ Pay

Spec == Init /\ [][Next]_vars

\* Orders made one after the other against the same payment-method instance.
NextShared ==
    \/ NewOrder
    \/ AddItem
    \/ SetPaymentMethod
    \/ SetDiscountStrategy
    \/ Pay

SpecShared == Init /\ [][NextShared]_vars

\* ------------------------------------- calls made on a payment method alone
DirectValidate ==
    /\ pc = "api"
    /\ \E m \in DOMAIN ledger : \E d \in DetailsOf(m) :
          /\ op' = "validate"
          /\ ret' = RetBool(validate(m, ledger[m], d))
          /\ calls' = <<>> /\ passed' = <<>>
          /\ details' = d /\ before' = status
    /\ UNCHANGED order_vars
    /\ UNCHANGED <<ledger, charges>>
    /\ UNCHANGED main_vars

DirectCheckBalance ==
    /\ pc = "api"
    /\ \E m \in DOMAIN ledger : \E d \in DetailsOf(m) : \E amount \in Amounts :
          /\ op' = "check_balance"
          /\ ret' = RetBool(check_balance(m, ledger[m], d, amount))
          /\ calls' = <<>> /\ passed' = <<amount>>
          /\ details' = d /\ before' = status
    /\ UNCHANGED order_vars
    /\ UNCHANGED <<ledger, charges>>
    /\ UNCHANGED main_vars

DirectProcessPayment ==
    /\ pc = "api"
    /\ \E m \in DOMAIN ledger : \E d \in DetailsOf(m) : \E amount \in Amounts :
          LET r == process_payment(m, ledger[m], amount, d)
              charged == r.raised = "" /\ r.ret
          IN  /\ charged => charges < MaxCharges
              /\ ledger' = [ledger EXCEPT ![m] = r.ledger]
              /\ charges' = IF charged THEN charges + 1 ELSE charges
              /\ op' = "process_payment"
              /\ ret' = IF r.raised # "" THEN RetRaise(r.raised) ELSE RetBool(r.ret)
              /\ calls' = <<>> /\ passed' = <<amount>>
              /\ details' = d /\ before' = status
    /\ UNCHANGED order_vars
    /\ UNCHANGED main_vars

NextDirect ==
    \/ DirectValidate
    \/ DirectCheckBalance
    \/ DirectProcessPayment

SpecDirect == Init /\ [][NextDirect]_vars

\* -------------------------------------------------------------------- logger
\* f"{amount:.2f}" of an amount held in cents: sign, dollars, cents.
Format2f(amount) ==
    LET a == IF amount < 0 THEN -amount ELSE amount
    IN  [sign |-> IF amount < 0 THEN "-" ELSE "", whole |-> a \div 100,
         frac |-> a % 100]

\* The line FileLogger.log_transaction appends (its timestamp left out).
log_transaction(payment_method_name, amount, success) ==
    [method |-> payment_method_name, amount |-> Format2f(amount),
     status |-> IF success THEN "Success" ELSE "Failure"]

\* payment_method.__class__.__name__.replace('Payment', '')
MethodName(m) ==
    CASE m = "CreditCardPayment" -> "CreditCard"
      [] m = "PayPalPayment" -> "PayPal"
      [] m = "CryptocurrencyPayment" -> "Cryptocurrency"

\* ---------------------------------------------------------------------- main
Choices == {"1", "2", "3", "4", "5", "x"}
CashDetails == {[name |-> <<"R">>, address |-> <<"A">>]}

\* The class main() instantiates for a menu input.
ChosenClass(c) ==
    CASE c = "1" -> "CreditCardPayment"
      [] c = "2" -> "PayPalPayment"
      [] c = "3" -> "CryptocurrencyPayment"

MainInit ==
    /\ Order_init
    /\ ledger = EmptyDict
    /\ charges = 0
    /\ op = "Order" /\ ret = RetNone /\ calls = <<>> /\ passed = <<>>
    /\ details = EmptyDict /\ before = "open"
    /\ pc = "items" /\ method_choice = Unread /\ log = <<>> /\ output = <<>>

\* One round of the item loop with a name other than 'done'.
MainAddItem ==
    /\ pc = "items"
    /\ Len(items) < MaxItems
    /\ \E name \in ItemNames, line \in Lines : add_item(name, line[1], line[2])
    /\ Plain("add_item", RetNone)
    /\ UNCHANGED <<ledger, charges>>
    /\ UNCHANGED main_vars

\* int() or float() rejects what was typed: ValueError leaves main().
MainBadNumber ==
    /\ pc = "items"
    /\ pc' = "raised"
    /\ Plain("input", RetRaise("ValueError"))
    /\ UNCHANGED order_vars
    /\ UNCHANGED <<ledger, charges, method_choice, log, output>>

MainDone ==
    /\ pc = "items"
    /\ pc' = "choose"
    /\ UNCHANGED order_vars
    /\ UNCHANGED hist_vars
    /\ UNCHANGED <<ledger, charges, method_choice, log, output>>

MainChoose_invalid_is_cash ==
    /\ pc = "choose"
    /\ \E c \in Choices :
          /\ method_choice' = c
          /\ IF c \in {"1", "2", "3"}
             THEN /\ ledger' = (ChosenClass(c) :> NewLedger(ChosenClass(c)))
                  /\ payment_method' = ChosenClass(c)
                  /\ discount_strategy' = get_discount(ChosenClass(c))
             ELSE UNCHANGED <<ledger, payment_method, discount_strategy>>
          /\ pc' = "pay"
          /\ UNCHANGED output
    /\ UNCHANGED <<items, quantities, prices, status, charges, log>>
    /\ UNCHANGED hist_vars

\* main, lines 277-296: the menu input, the instance, its wiring into the order.
MainChoose ==
    /\ pc = "choose"
    /\ \E c \in Choices :
          /\ method_choice' = c
          /\ IF c \in {"1", "2", "3"}
             THEN /\ ledger' = (ChosenClass(c) :> NewLedger(ChosenClass(c)))
                  /\ payment_method' = ChosenClass(c)
                  /\ discount_strategy' = get_discount(ChosenClass(c))
                  /\ pc' = "pay"
                  /\ UNCHANGED output
             ELSE IF c = "4"
             THEN /\ pc' = "pay"
                  /\ UNCHANGED <<ledger, payment_method, discount_strategy, output>>
             ELSE /\ output' = Append(output, "Invalid choice.")
                  /\ pc' = "done"
                  /\ UNCHANGED <<ledger, payment_method, discount_strategy>>
    /\ UNCHANGED <<items, quantities, prices, status, charges, log>>
    /\ UNCHANGED hist_vars

\* main, lines 299-316 and 325-330: the details typed in, then order.pay.
MainPay ==
    /\ pc = "pay"
    /\ IF payment_method # "None"
       THEN /\ \E d \in DetailsOf(payment_method) \ {EmptyDict} : CallPay(d)
            /\ UNCHANGED output
       ELSE /\ \E d \in CashDetails : CallPay(d)
            /\ output' = Append(output, "Cash payment does not include any discount.")
    /\ pc' = "log"
    /\ UNCHANGED <<method_choice, log>>

\* main, lines 317-319 and 331-332: the logger is built and called.  On the
\* cash branch the abstract TransactionLogger is instantiated: TypeError.
MainLog ==
    /\ pc = "log"
    /\ IF payment_method # "None"
       THEN /\ log' = Append(log, log_transaction(MethodName(payment_method),
                                                  total_price, ret = RetBool(TRUE)))
            /\ pc' = "print"
            /\ UNCHANGED hist_vars
       ELSE /\ pc' = "raised"
            /\ Plain("TransactionLogger", RetRaise("TypeError"))
            /\ UNCHANGED log
    /\ UNCHANGED order_vars
    /\ UNCHANGED <<ledger, charges, method_choice, output>>

\* main, lines 320-323.
MainPrint ==
    /\ pc = "print"
    /\ output' = Append(output, IF ret = RetBool(TRUE) THEN "Payment successful!"
                                ELSE "Payment failed.")
    /\ pc' = "done"
    /\ UNCHANGED order_vars
    /\ UNCHANGED hist_vars
    /\ UNCHANGED <<ledger, charges, method_choice, log>>

NextMain ==
    \/ MainAddItem
    \/ MainBadNumber
    \/ MainDone
    \/ MainChoose
    \/ MainPay
    \/ MainLog
    \/ MainPrint

SpecMain == MainInit /\ [][NextMain]_vars

\* ============================================================== properties
\* C1: through Order.pay alone, on orders sharing one payment-method instance,
\* every balance of the instance's ledger stays >= 0.
C1_BalancesNonNegative ==
    \A m \in DOMAIN ledger : \A k \in DOMAIN ledger[m] : ledger[m][k] >= 0

\* An order still "open" has just been charged a positive amount on an
\* instance that an earlier order had already been charged on.
C1_Witness ==
    /\ charges >= 2
    /\ op = "pay" /\ ret = RetBool(TRUE) /\ before = "open"
    /\ passed # <<>> /\ passed[1] > 0

\* C2: a fresh order is "open"; an order goes from "open" to "paid" only in a
\* pay call that had a payment method and whose process_payment returned true;
\* a "paid" order never becomes "open" again.
C2_StatusSteps ==
    /\ status = "open"
    /\ [][ /\ status = "paid" => status' = "paid"
           /\ (status = "open" /\ status' = "paid") =>
                 /\ op' = "pay"
                 /\ ret' = RetBool(TRUE)
                 /\ payment_method # "None"
                 /\ calls' = <<"validate", "process_payment">> ]_vars

\* A paid order on which a later call has been made.
C2_Witness == status = "paid" /\ op = "add_item"

\* C4: the amount pay hands to process_payment is max(0, total_price() -
\* apply_discounts()), never negative, and 0 when a fixed discount exceeds the
\* total.
C4_AmountPassed ==
    (op = "pay" /\ passed # <<>>) =>
        /\ passed[1] = (IF total_price - apply_discounts > 0
                        THEN total_price - apply_discounts ELSE 0)
        /\ passed[1] >= 0
        /\ (/\ discount_strategy.kind = "FixedAmountDiscount"
            /\ discount_strategy.discount_amount > total_price) => passed[1] = 0

\* pay charged 0 for two lines worth -100.00 under the fixed discount of 30.
C4_Witness ==
    /\ op = "pay" /\ passed = <<0>>
    /\ discount_strategy = FixedAmountDiscount(3000)
    /\ Len(quantities) = 2 /\ total_price = -10000

\* The account a details dict names for the order's payment method.
AccountOf(d) == Get(d, IdKey(payment_method))

\* C5: with a payment method set, pay returns true exactly when the details
\* validate and the account's balance covers final_amount; a pay that returns
\* false leaves ledger, items and status as they were.
C5_PayResult ==
    [][ (op' = "pay" /\ payment_method # "None") =>
          /\ ret'.type = "bool"
          /\ ret'.val <=>
               /\ validate(payment_method, ledger[payment_method], details')
               /\ ledger[payment_method][AccountOf(details')] >=
                    (IF total_price - apply_discounts > 0
                     THEN total_price - apply_discounts ELSE 0)
          /\ ~ret'.val =>
               UNCHANGED <<ledger, items, quantities, prices, status>> ]_vars

\* Scenario 4: a wallet holding 1000.00 is asked for 1600.00 and pay fails.
C5_Witness ==
    /\ op = "pay" /\ ret = RetBool(FALSE)
    /\ payment_method = "CryptocurrencyPayment"
    /\ details = [wallet_address |-> Wallet]
    /\ passed = <<160000>>
    /\ ledger["CryptocurrencyPayment"][Wallet] = 100000

\* C6: pay has no status guard: on an order already "paid", a pay whose details
\* validate and whose account covers final_amount returns true and decrements
\* the account once more by final_amount.
C6_ChargesAgain ==
    [][ ( /\ op' = "pay" /\ status = "paid" /\ payment_method # "None"
          /\ validate(payment_method, ledger[payment_method], details')
          /\ ledger[payment_method][AccountOf(details')] >= final_amount ) =>
          /\ ret' = RetBool(TRUE)
          /\ ledger' = [ledger EXCEPT ![payment_method][AccountOf(details')] =
                                          @ - final_amount] ]_vars

\* A pay on a paid order succeeded and took a positive amount.
C6_Witness ==
    /\ op = "pay" /\ before = "paid" /\ ret = RetBool(TRUE)
    /\ passed # <<>> /\ passed[1] > 0

\* C9: with no payment method set, pay returns true whatever the details and
\* the items, calls neither validate nor process_payment, changes no ledger
\* and leaves the status "open".
C9_CashPay ==
    [][ (op' = "pay" /\ payment_method = "None") =>
          /\ ret' = RetBool(TRUE)
          /\ calls' = <<>> /\ passed' = <<>>
          /\ UNCHANGED ledger
          /\ status = "open" /\ status' = "open" ]_vars

\* pay was called with details on an order with items and no payment method.
C9_Witness ==
    /\ op = "pay" /\ payment_method = "None" /\ ret = RetBool(TRUE)
    /\ quantities # <<>> /\ details # EmptyDict

\* C3: a direct process_payment either returns true having decremented the
\* existing entry of the identifier by exactly the amount, or returns false
\* with the ledger as it was; it never raises and never adds or drops a key.
C3_TwoOutcomes ==
    [][ op' = "process_payment" =>
          \/ /\ ret' = RetBool(TRUE)
             /\ \E m \in DOMAIN ledger :
                   /\ Get(details', IdKey(m)) \in DOMAIN ledger[m]
                   /\ ledger' = [ledger EXCEPT ![m][Get(details', IdKey(m))] =
                                                   @ - passed'[1]]
          \/ /\ ret' = RetBool(FALSE)
             /\ ledger' = ledger ]_vars

\* The run of main() is over.
Ended == pc \in {"done", "raised"}

Outcomes == {"Payment successful!", "Payment failed."}

\* C7: a run whose menu input is 1, 2, 3 or 4 ends with exactly one line in the
\* log, appended after pay, and with its outcome message printed.
C7_OneLogLine ==
    /\ Len(log) <= 1
    /\ (Ended /\ method_choice \in {"1", "2", "3", "4"}) =>
          /\ pc = "done"
          /\ op = "pay"
          /\ Len(log) = 1
          /\ output # <<>> /\ output[Len(output)] \in Outcomes

\* C8: the amount of the transaction record is the amount pay passed to
\* process_payment; the card order of one item 2 x 25.00 is recorded as 20.00,
\* Success, and leaves the card at 480.00.
C8_RecordIsCharge ==
    /\ (log # <<>> /\ passed # <<>>) => log[1].amount = Format2f(passed[1])
    /\ ( /\ pc = "done" /\ method_choice = "1"
         /\ quantities = <<2>> /\ prices = <<2500>>
         /\ details = [card_number |-> Card1, expiry_date |-> Expiry, cvv |-> Cvv] )
       => /\ Len(log) = 1
          /\ log[1].amount = Format2f(2000)
          /\ log[1].status = "Success"
          /\ ledger["CreditCardPayment"][Card1] = 48000

\* C10: a menu input other than "1".."4" ends the run at the invalid-choice
\* message: pay is never called, no payment method is created or charged, and
\* the log stays empty.
C10_InvalidChoice ==
    (method_choice \notin {Unread, "1", "2", "3", "4"}) =>
        /\ pc = "done"
        /\ output = <<"Invalid choice.">>
        /\ op # "pay" /\ calls = <<>>
        /\ DOMAIN ledger = {}
        /\ payment_method = "None"
        /\ charges = 0
        /\ status = "open"
        /\ log = <<>>

\* Items were entered and the menu input was "5".
C10_Witness == method_choice = "5" /\ pc = "done" /\ Len(items) = MaxItems

====
